---- MODULE Spec2Model ----
(***************************************************************************)
(* Model of crates/core/src/models/block.rs: the translation of an        *)
(* Ethereum block identifier into a Starknet block identifier              *)
(* (EthBlockId), the accessors of the two Starknet block wrappers          *)
(* (BlockWithTxHashes, BlockWithTxs) and their two to_eth_block            *)
(* implementations, the second of which awaits the client.                 *)
(*                                                                         *)
(* Representation of the primitive types:                                  *)
(*   H256, Address, H64, Bloom  byte sequences, most significant first     *)
(*   FieldElement               32 base-256 digits, least significant      *)
(*                              first (value = sum f[i] * 256^(i-1))       *)
(*   U256                       4 limbs of 64 bits, least significant first*)
(*   Option<T>                  <<>> (None) or <<x>> (Some(x))             *)
(***************************************************************************)
EXTENDS Integers, Sequences, FiniteSets

\* ------------------------------------------------------------------ bounds
\* Longest transaction list of a block.
MaxTxs == 2
\* Largest block number of an identifier Number(n).
MaxBlockNumber == 3

\* ------------------------------------------------------------- primitives
None == <<>>
Some(x) == <<x>>
IsSome(o) == Len(o) = 1
Unwrap(o) == o[1]

H256_LEN == 32
ADDRESS_LEN == 20
H64_LEN == 8
BLOOM_LEN == 256

\* H256::zero(), H64::zero(), Bloom::default()
H256_zero == [i \in 1..H256_LEN |-> 0]
H64_zero == [i \in 1..H64_LEN |-> 0]
Bloom_default == [i \in 1..BLOOM_LEN |-> 0]
\* H256::from_slice copies the 32 bytes it is given.
H256_from_slice(bytes) == [i \in 1..H256_LEN |-> bytes[i]]
\* Address::from_slice copies the 20 bytes it is given.
Address_from_slice(bytes) == [i \in 1..ADDRESS_LEN |-> bytes[i]]
\* U256::from(u64): the value in the lowest limb, the three upper limbs zero.
U256_from(n) == <<n, 0, 0, 0>>
\* Bytes::from(b"0x00"): the four ASCII characters '0' 'x' '0' '0'.
extra_data_literal == <<48, 120, 48, 48>>

\* The Starknet field's modulus 2^251 + 17 * 2^192 + 1, as 32 big-endian bytes.
FIELD_MODULUS_BE ==
  [i \in 1..H256_LEN |-> IF i = 1 THEN 8 ELSE IF i = 8 THEN 17 ELSE IF i = 32 THEN 1 ELSE 0]

\* a < b for two big-endian byte strings of the same length.
LtBE(a, b) ==
  \E k \in 1..Len(a) : a[k] < b[k] /\ \A j \in 1..(k - 1) : a[j] = b[j]

\* FieldElement::to_bytes_be: the 32 digits, most significant first.
to_bytes_be(f) == [i \in 1..H256_LEN |-> f[H256_LEN + 1 - i]]

\* FieldElement::from_bytes_be on bytes already known to be below the modulus.
FieldElement_from_bytes_be(bytes) == [i \in 1..H256_LEN |-> bytes[H256_LEN + 1 - i]]

\* Felt252Wrapper::try_from(H256): the field element of the same numeric value,
\* or InvalidFieldElement when the 32 bytes are not below the modulus.
Felt252Wrapper_try_from(h) ==
  IF LtBE(h, FIELD_MODULUS_BE)
    THEN [ok |-> TRUE, val |-> FieldElement_from_bytes_be(h)]
    ELSE [ok |-> FALSE, err |-> "InvalidFieldElement"]

\* Felt252Wrapper::troncate_to_ethereum_address: bytes 12..32 of to_bytes_be.
troncate_to_ethereum_address(f) ==
  Address_from_slice(SubSeq(to_bytes_be(f), H256_LEN - ADDRESS_LEN + 1, H256_LEN))

\* ---------------------------------------------------------- sample values
\* 32-byte values around the modulus and with every byte distinct.
H_ONE == [i \in 1..H256_LEN |-> IF i = 32 THEN 1 ELSE 0]
H_PM1 == [FIELD_MODULUS_BE EXCEPT ![32] = 0]
H_PP1 == [FIELD_MODULUS_BE EXCEPT ![32] = 2]
H_MAX == [i \in 1..H256_LEN |-> 255]
H_COUNT == [i \in 1..H256_LEN |-> i - 1]
H_HIGH == [i \in 1..H256_LEN |-> IF i = 1 THEN 7 ELSE 255 - i]
H_TOP == [i \in 1..H256_LEN |-> IF i = 1 THEN 8 ELSE 0]
H_ADDR ==
  [i \in 1..H256_LEN |-> IF i <= 12 THEN 0
     ELSE <<170, 187, 204, 221, 238, 255, 0, 17, 34, 51,
            68, 85, 102, 119, 136, 153, 170, 187, 204, 221>>[i - 12]]

Hashes == {H256_zero, H_ONE, H_PM1, FIELD_MODULUS_BE, H_PP1, H_MAX, H_COUNT, H_HIGH, H_TOP}

\* Field elements: each below the modulus.
F_COUNT == FieldElement_from_bytes_be(H_COUNT)
F_HIGH == FieldElement_from_bytes_be(H_HIGH)
F_ADDR == FieldElement_from_bytes_be(H_ADDR)
F_PM1 == FieldElement_from_bytes_be(H_PM1)
F_ONE == FieldElement_from_bytes_be(H_ONE)

\* ---------------------------------------------------------- configuration
\* crate::client::constants: a record of placeholder values that block.rs reads
\* and never writes. Its values are not set in block.rs, so the model lets the
\* record be any of these.
Configs ==
  { [EARLIEST_BLOCK_NUMBER |-> 0,
     GAS_LIMIT |-> U256_from(1000000), GAS_USED |-> U256_from(500000),
     DIFFICULTY |-> U256_from(0), NONCE |-> Some(H64_zero),
     SIZE |-> Some(U256_from(1000000)), MIX_HASH |-> H256_zero,
     TOTAL_DIFFICULTY |-> Some(U256_from(0))],
    [EARLIEST_BLOCK_NUMBER |-> 1,
     GAS_LIMIT |-> U256_from(30), GAS_USED |-> U256_from(21),
     DIFFICULTY |-> U256_from(2), NONCE |-> Some([i \in 1..H64_LEN |-> i]),
     SIZE |-> None, MIX_HASH |-> H_COUNT,
     TOTAL_DIFFICULTY |-> Some(U256_from(9))] }

\* What client.base_fee_per_gas() returns.
BaseFees == {U256_from(7)}

VARIABLES
  cfg,                \* the configuration record (crate::client::constants)
  base_fee,           \* the client's base fee
  eth_block_id,       \* Option<EthBlockId>: the wrapper under translation
  starknet_block_id,  \* Option<Result<StarknetBlockId, EthApiError>>
  unwrapped,          \* Option<EthereumBlockId>: what From<EthBlockId> gave back
  pc,                 \* per request: where its to_eth_block future stands
  kind,               \* per request: "BlockWithTxHashes" or "BlockWithTxs"
  self,               \* per request: Option<the wrapped Starknet block>
  locals,             \* per request: Option<locals the suspended future holds>
  calls,              \* per request: the calls it made on the client, in order
  ret                 \* per request: Option<RichBlock>, the value returned

idVars == <<eth_block_id, starknet_block_id, unwrapped>>
envVars == <<cfg, base_fee>>
reqVars == <<pc, kind, self, locals, calls, ret>>
vars == <<cfg, base_fee, eth_block_id, starknet_block_id, unwrapped,
          pc, kind, self, locals, calls, ret>>

\* ------------------------------------------------------------ EthBlockId
BlockNumberOrTags ==
  {[tag |-> t] : t \in {"Safe", "Latest", "Finalized", "Earliest", "Pending"}}
    \cup {[tag |-> "Number", number |-> n] : n \in 0..MaxBlockNumber}

EthereumBlockIds ==
  {[tag |-> "Hash", block_hash |-> h] : h \in Hashes}
    \cup {[tag |-> "Number", number_or_tag |-> x] : x \in BlockNumberOrTags}

Ok(v) == [ok |-> TRUE, val |-> v]

\* EthBlockId::to_starknet_block_id
to_starknet_block_id_unchecked(id, c) ==
  IF id.tag = "Hash"
    THEN Ok([tag |-> "Hash", felt |-> FieldElement_from_bytes_be(id.block_hash)])
    ELSE LET x == id.number_or_tag
         IN  CASE x.tag \in {"Safe", "Latest", "Finalized"} -> Ok([tag |-> "Tag", block_tag |-> "Latest"])
               [] x.tag = "Earliest" -> Ok([tag |-> "Number", number |-> c.EARLIEST_BLOCK_NUMBER])
               [] x.tag = "Pending" -> Ok([tag |-> "Tag", block_tag |-> "Pending"])
               [] x.tag = "Number" -> Ok([tag |-> "Number", number |-> x.number])
to_starknet_block_id_safe_pending(id, c) ==
  IF id.tag = "Hash"
    THEN LET hash == Felt252Wrapper_try_from(id.block_hash)
         IN  IF hash.ok THEN Ok([tag |-> "Hash", felt |-> hash.val]) ELSE hash
    ELSE LET x == id.number_or_tag
         IN  CASE x.tag \in {"Latest", "Finalized"} -> Ok([tag |-> "Tag", block_tag |-> "Latest"])
               [] x.tag = "Earliest" -> Ok([tag |-> "Number", number |-> c.EARLIEST_BLOCK_NUMBER])
               [] x.tag \in {"Safe", "Pending"} -> Ok([tag |-> "Tag", block_tag |-> "Pending"])
               [] x.tag = "Number" -> Ok([tag |-> "Number", number |-> x.number])
to_starknet_block_id(id, c) ==
  IF id.tag = "Hash"
    THEN LET hash == Felt252Wrapper_try_from(id.block_hash)
         IN  IF hash.ok THEN Ok([tag |-> "Hash", felt |-> hash.val]) ELSE hash
    ELSE LET x == id.number_or_tag
         IN  CASE x.tag \in {"Safe", "Latest", "Finalized"} -> Ok([tag |-> "Tag", block_tag |-> "Latest"])
               [] x.tag = "Earliest" -> Ok([tag |-> "Number", number |-> c.EARLIEST_BLOCK_NUMBER])
               [] x.tag = "Pending" -> Ok([tag |-> "Tag", block_tag |-> "Pending"])
               [] x.tag = "Number" -> Ok([tag |-> "Number", number |-> x.number])

\* EthBlockId::new
EthBlockId_new(id) ==
  /\ eth_block_id = None
  /\ eth_block_id' = Some(id)
  /\ starknet_block_id' = None
  /\ unwrapped' = None
  /\ UNCHANGED <<envVars, reqVars>>

\* a call of to_starknet_block_id(&self)
ToStarknetBlockId ==
  /\ IsSome(eth_block_id)
  /\ starknet_block_id' = Some(to_starknet_block_id(Unwrap(eth_block_id), cfg))
  /\ UNCHANGED <<eth_block_id, unwrapped, envVars, reqVars>>

\* From<EthBlockId> for EthereumBlockId: consumes the wrapper
IntoEthereumBlockId ==
  /\ IsSome(eth_block_id)
  /\ unwrapped' = Some(Unwrap(eth_block_id))
  /\ eth_block_id' = None
  /\ UNCHANGED <<starknet_block_id, envVars, reqVars>>

\* ------------------------------------------------- Starknet block wrappers
\* Two requests run concurrently, each on a block of its own.
Requests == {1, 2}

\* Transaction hashes of a MaybePendingBlockWithTxHashes.
TxHashes == {F_ONE, F_HIGH}
\* Transactions of a MaybePendingBlockWithTxs.
Transactions ==
  { [type |-> "INVOKE", transaction_hash |-> F_ONE],
    [type |-> "DECLARE", transaction_hash |-> F_COUNT] }

SeqsUpTo(S, n) == UNION {[1..k -> S] : k \in 0..n}

\* MaybePendingBlockWithTxHashes / MaybePendingBlockWithTxs: a pending block, which
\* has no block_hash and no block_number, and two confirmed blocks, the first with
\* the pending block's parent, sequencer and timestamp.
MaybePendingBlocks(elems) ==
  { [tag |-> "PendingBlock", parent_hash |-> F_COUNT, sequencer_address |-> F_HIGH,
     timestamp |-> 1000, transactions |-> txs] : txs \in SeqsUpTo(elems, MaxTxs) }
  \cup
  { [tag |-> "Block", parent_hash |-> F_COUNT, sequencer_address |-> F_HIGH,
     timestamp |-> 1000, transactions |-> txs, block_hash |-> F_PM1,
     block_number |-> 5] : txs \in SeqsUpTo(elems, MaxTxs) }
  \cup
  { [tag |-> "Block", parent_hash |-> F_PM1, sequencer_address |-> F_ADDR,
     timestamp |-> 0, transactions |-> txs, block_hash |-> F_COUNT,
     block_number |-> 0] : txs \in SeqsUpTo(elems, MaxTxs) }

Kinds == {"BlockWithTxHashes", "BlockWithTxs"}
BlocksWithTxHashes == MaybePendingBlocks(TxHashes)
BlocksWithTxs == MaybePendingBlocks(Transactions)
BlocksOf(k) == IF k = "BlockWithTxHashes" THEN BlocksWithTxHashes ELSE BlocksWithTxs

\* implement_starknet_block_getters!: the field, whichever the variant.
getters_not_pending_always_none(block, field) == None
implement_starknet_block_getters(block, field) ==
  CASE block.tag = "PendingBlock" -> block[field]
    [] block.tag = "Block" -> block[field]

\* implement_starknet_block_getters_not_pending!: None for a pending block.
implement_starknet_block_getters_not_pending(block, field) ==
  CASE block.tag = "PendingBlock" -> None
    [] block.tag = "Block" -> Some(block[field])

parent_hash(block) == implement_starknet_block_getters(block, "parent_hash")
sequencer_address(block) == implement_starknet_block_getters(block, "sequencer_address")
timestamp(block) == implement_starknet_block_getters(block, "timestamp")
transactions(block) == implement_starknet_block_getters(block, "transactions")
block_hash(block) == implement_starknet_block_getters_not_pending(block, "block_hash")
block_number(block) == implement_starknet_block_getters_not_pending(block, "block_number")

\* ------------------------------------------------------------ to_eth_block
\* H256::from_slice(&felt.to_bytes_be())
H256OfFelt(f) == H256_from_slice(to_bytes_be(f))

\* let sequencer = Felt252Wrapper::from(self.sequencer_address()).troncate_to_ethereum_address();
SequencerOfParent(block) == troncate_to_ethereum_address(parent_hash(block))
Sequencer(block) == troncate_to_ethereum_address(sequencer_address(block))

\* let hash = self.block_hash().as_ref().map(|hash| H256::from_slice(&hash.to_bytes_be()));
HashOf(block) ==
  LET o == block_hash(block)
  IN  IF IsSome(o) THEN Some(H256OfFelt(Unwrap(o))) ELSE None
\* let number = self.block_number().map(U256::from);
NumberOf(block) ==
  LET o == block_number(block)
  IN  IF IsSome(o) THEN Some(U256_from(Unwrap(o))) ELSE None

\* BlockTransactions::Hashes(self.transactions().iter().map(..).collect())
HashesReversed(block) ==
  LET txs == transactions(block)
  IN  [tag |-> "Hashes", hashes |-> [i \in 1..Len(txs) |-> H256OfFelt(txs[Len(txs) + 1 - i])]]
HashesOf(block) ==
  LET txs == transactions(block)
  IN  [tag |-> "Hashes", hashes |-> [i \in 1..Len(txs) |-> H256OfFelt(txs[i])]]

\* let header = Header { .. }, the same text in both implementations.
HeaderOf(l) ==
  [hash |-> l.hash, parent_hash |-> l.parent_hash, uncles_hash |-> l.parent_hash,
   miner |-> l.sequencer, state_root |-> H256_zero, transactions_root |-> H256_zero,
   receipts_root |-> H256_zero, number |-> l.number, gas_used |-> l.gas_used,
   gas_limit |-> l.gas_limit, extra_data |-> l.extra_data, logs_bloom |-> l.logs_bloom,
   timestamp |-> l.timestamp, difficulty |-> l.difficulty, nonce |-> l.nonce,
   base_fee_per_gas |-> Some(l.base_fee_per_gas), mix_hash |-> l.mix_hash,
   withdrawals_root |-> Some(H256_zero)]

\* let block = Block { .. }, the same text in both implementations.
BlockOfDifficulty(header, total_difficulty, txs, size) ==
  [header |-> header, total_difficulty |-> Some(header.difficulty), uncles |-> <<>>,
   transactions |-> txs, size |-> size, withdrawals |-> Some(<<>>)]
BlockOf(header, total_difficulty, txs, size) ==
  [header |-> header, total_difficulty |-> total_difficulty, uncles |-> <<>>,
   transactions |-> txs, size |-> size, withdrawals |-> Some(<<>>)]

\* block.into(): a RichBlock with no extra info.
RichBlockOf(block) == [inner |-> block, extra_info |-> <<>>]

\* The locals of BlockWithTxHashes::to_eth_block up to `let number`.
TxHashesLocals(block, c, fee) ==
  [gas_limit |-> c.GAS_LIMIT, gas_used |-> c.GAS_USED, difficulty |-> c.DIFFICULTY,
   nonce |-> Some(H64_zero), size |-> c.SIZE, logs_bloom |-> Bloom_default,
   extra_data |-> extra_data_literal, base_fee_per_gas |-> fee, mix_hash |-> c.MIX_HASH,
   parent_hash |-> H256OfFelt(parent_hash(block)), sequencer |-> Sequencer(block),
   timestamp |-> U256_from(timestamp(block)), hash |-> HashOf(block), number |-> NumberOf(block)]

\* The locals of BlockWithTxs::to_eth_block up to `let number`.
TxsLocals(block, c, fee) ==
  [gas_limit |-> c.GAS_LIMIT, gas_used |-> c.GAS_USED, difficulty |-> c.DIFFICULTY,
   nonce |-> c.NONCE, size |-> c.SIZE, logs_bloom |-> Bloom_default,
   extra_data |-> extra_data_literal, base_fee_per_gas |-> fee, mix_hash |-> c.MIX_HASH,
   parent_hash |-> H256OfFelt(parent_hash(block)), sequencer |-> Sequencer(block),
   timestamp |-> U256_from(timestamp(block)), hash |-> HashOf(block), number |-> NumberOf(block)]

\* BlockWithTxHashes::to_eth_block, which awaits nothing.
BlockWithTxHashes_to_eth_block(block, c, fee) ==
  LET l == TxHashesLocals(block, c, fee)
  IN  RichBlockOf(BlockOf(HeaderOf(l), c.TOTAL_DIFFICULTY, HashesOf(block), l.size))

\* BlockWithTxs::to_eth_block after its await: the header, the block, the return.
BlockWithTxs_finish(l, txs, c) ==
  RichBlockOf(BlockOf(HeaderOf(l), c.TOTAL_DIFFICULTY, txs, l.size))

\* ---------------------------------------------------------------- client
\* client.base_fee_per_gas(): called, not awaited.
BaseFeeCallAwaited(fee) ==
  [fn |-> "base_fee_per_gas", awaited |-> TRUE, args |-> <<>>, returned |-> Some(fee)]
BaseFeeCall(fee) ==
  [fn |-> "base_fee_per_gas", awaited |-> FALSE, args |-> <<>>, returned |-> Some(fee)]

\* client.filter_starknet_into_eth_txs(self.transactions().into(), hash, number).await
FilterCallNoHash(block, l) ==
  [fn |-> "filter_starknet_into_eth_txs", awaited |-> TRUE,
   args |-> <<transactions(block), None, l.number>>, returned |-> None]
FilterCall(block, l) ==
  [fn |-> "filter_starknet_into_eth_txs", awaited |-> TRUE,
   args |-> <<transactions(block), l.hash, l.number>>, returned |-> None]

\* What the client's filter_starknet_into_eth_txs may return: the converted
\* transactions, all of them or the INVOKE ones, in the order it was given.
IsInvoke(tx) == tx.type = "INVOKE"
EthTx(tx, hash, number) ==
  [hash |-> H256OfFelt(tx.transaction_hash), block_hash |-> hash, block_number |-> number]
FilterAnswers(txs, hash, number) ==
  { [tag |-> "Full", txs |-> [i \in 1..Len(s) |-> EthTx(s[i], hash, number)]]
      : s \in {txs, SelectSeq(txs, IsInvoke)} }

\* The last call of a request, the one its future awaits.
LastCall(r) == calls[r][Len(calls[r])]

\* ---------------------------------------------------------------- actions
\* BlockWithTxHashes::new / BlockWithTxs::new, and the call of to_eth_block, which
\* creates the future and runs nothing of it.
New(r, k, block) ==
  /\ pc[r] = "idle"
  /\ pc' = [pc EXCEPT ![r] = "start"]
  /\ kind' = [kind EXCEPT ![r] = k]
  /\ self' = [self EXCEPT ![r] = Some(block)]
  /\ UNCHANGED <<locals, calls, ret, envVars, idVars>>

\* The one poll of BlockWithTxHashes::to_eth_block: it runs to its return.
PollTxHashes(r) ==
  /\ pc[r] = "start"
  /\ kind[r] = "BlockWithTxHashes"
  /\ calls' = [calls EXCEPT ![r] = Append(@, BaseFeeCall(base_fee))]
  /\ ret' = [ret EXCEPT ![r] = Some(BlockWithTxHashes_to_eth_block(Unwrap(self[r]), cfg, base_fee))]
  /\ pc' = [pc EXCEPT ![r] = "done"]
  /\ UNCHANGED <<kind, self, locals, envVars, idVars>>

\* The first poll of BlockWithTxs::to_eth_block: it runs to the await of
\* filter_starknet_into_eth_txs and suspends there.
PollTxsStart(r) ==
  /\ pc[r] = "start"
  /\ kind[r] = "BlockWithTxs"
  /\ LET l == TxsLocals(Unwrap(self[r]), cfg, base_fee)
     IN  /\ locals' = [locals EXCEPT ![r] = Some(l)]
         /\ calls' = [calls EXCEPT ![r] =
                        @ \o <<BaseFeeCall(base_fee), FilterCall(Unwrap(self[r]), l)>>]
  /\ pc' = [pc EXCEPT ![r] = "awaiting"]
  /\ UNCHANGED <<kind, self, ret, envVars, idVars>>

\* The second poll of BlockWithTxs::to_eth_block: the client's future is ready
\* with the converted transactions, and the code runs from the await to the return.
PollTxsResume(r) ==
  /\ pc[r] = "awaiting"
  /\ LET a == LastCall(r).args
     IN  \E ans \in FilterAnswers(a[1], a[2], a[3]) :
           /\ calls' = [calls EXCEPT ![r][Len(calls[r])].returned = Some(ans)]
           /\ ret' = [ret EXCEPT ![r] = Some(BlockWithTxs_finish(Unwrap(locals[r]), ans, cfg))]
  /\ locals' = [locals EXCEPT ![r] = None]
  /\ pc' = [pc EXCEPT ![r] = "done"]
  /\ UNCHANGED <<kind, self, envVars, idVars>>

\* The caller drops the future before it has returned: its locals, its borrow of
\* the block and, when it is suspended, the client's future go with it, and it is
\* never polled again.
AbandonDetached(r) ==
  /\ pc[r] \in {"start", "awaiting"}
  /\ pc' = [pc EXCEPT ![r] = IF pc[r] = "start" THEN "dropped_unpolled" ELSE "dropped_suspended"]
  /\ ret' = [ret EXCEPT ![r] = IF pc[r] = "awaiting"
               THEN Some(BlockWithTxs_finish(Unwrap(locals[r]),
                      [tag |-> "Full", txs |-> <<>>], cfg))
               ELSE @]
  /\ self' = [self EXCEPT ![r] = None]
  /\ locals' = [locals EXCEPT ![r] = None]
  /\ calls' = [calls EXCEPT ![r] = <<>>]
  /\ UNCHANGED <<kind, envVars, idVars>>
Abandon(r) ==
  /\ pc[r] \in {"start", "awaiting"}
  /\ pc' = [pc EXCEPT ![r] = IF pc[r] = "start" THEN "dropped_unpolled" ELSE "dropped_suspended"]
  /\ self' = [self EXCEPT ![r] = None]
  /\ locals' = [locals EXCEPT ![r] = None]
  /\ calls' = [calls EXCEPT ![r] = <<>>]
  /\ UNCHANGED <<kind, ret, envVars, idVars>>

Init ==
  /\ cfg \in Configs
  /\ base_fee \in BaseFees
  /\ eth_block_id = None
  /\ starknet_block_id = None
  /\ unwrapped = None
  /\ pc = [r \in Requests |-> "idle"]
  /\ kind = [r \in Requests |-> "BlockWithTxHashes"]
  /\ self = [r \in Requests |-> None]
  /\ locals = [r \in Requests |-> None]
  /\ calls = [r \in Requests |-> <<>>]
  /\ ret = [r \in Requests |-> None]

NextId ==
  \/ \E id \in EthereumBlockIds : EthBlockId_new(id)
  \/ ToStarknetBlockId
  \/ IntoEthereumBlockId

SpecId == Init /\ [][NextId]_vars

Next ==
  \/ \E r \in Requests, k \in Kinds : \E block \in BlocksOf(k) : New(r, k, block)
  \/ \E r \in Requests : PollTxHashes(r)
  \/ \E r \in Requests : PollTxsStart(r)
  \/ \E r \in Requests : PollTxsResume(r)
  \/ \E r \in Requests : Abandon(r)

Spec == Init /\ [][Next]_vars

\* ------------------------------------------------------------------ claims
\* The identifier under translation and the result of its translation.
Translated == IsSome(eth_block_id) /\ IsSome(starknet_block_id)
TheId == Unwrap(eth_block_id)
TheResult == Unwrap(starknet_block_id)

\* bytes is the 32-byte big-endian encoding of the field element f.
IsBigEndianOf(bytes, f) ==
  /\ Len(bytes) = H256_LEN
  /\ \A i \in 1..H256_LEN : bytes[i] = f[H256_LEN + 1 - i]

\* u is the 256-bit integer of the same value as the 64-bit n.
IsWidened(u, n) == Len(u) = 4 /\ u[1] = n /\ \A i \in 2..4 : u[i] = 0

IsPendingBlock(r) == Unwrap(self[r]).tag = "PendingBlock"
Returned(r) == pc[r] = "done"
Inner(r) == Unwrap(ret[r]).inner
HeaderOfRet(r) == Inner(r).header
Source(r) == Unwrap(self[r])

\* C1: a number-or-tag identifier always translates, to Tag(Latest) for Safe,
\* Latest and Finalized, to Number(EARLIEST_BLOCK_NUMBER) for Earliest, to
\* Tag(Pending) for Pending and to Number(n) for Number(n).
C1_NumberOrTagTranslation ==
  (Translated /\ TheId.tag = "Number") =>
    LET x == TheId.number_or_tag
        res == TheResult
    IN  /\ res.ok
        /\ x.tag \in {"Safe", "Latest", "Finalized"} => res.val = [tag |-> "Tag", block_tag |-> "Latest"]
        /\ x.tag = "Earliest" => res.val = [tag |-> "Number", number |-> cfg.EARLIEST_BLOCK_NUMBER]
        /\ x.tag = "Pending" => res.val = [tag |-> "Tag", block_tag |-> "Pending"]
        /\ x.tag = "Number" => res.val = [tag |-> "Number", number |-> x.number]

C1_Witness ==
  /\ Translated
  /\ TheId = [tag |-> "Number", number_or_tag |-> [tag |-> "Safe"]]
  /\ TheResult.ok
  /\ TheResult.val.tag = "Tag"

\* C2: the translation fails only for a Hash(h) whose value is not below the
\* field modulus, with InvalidFieldElement; a Hash(h) below it gives Hash of the
\* field element of the same value; a number-or-tag identifier never fails.
C2_OnlyHashOutOfRangeFails ==
  Translated =>
    LET res == TheResult
    IN  /\ ~res.ok => /\ TheId.tag = "Hash"
                      /\ ~LtBE(TheId.block_hash, FIELD_MODULUS_BE)
                      /\ res.err = "InvalidFieldElement"
        /\ (TheId.tag = "Hash" /\ LtBE(TheId.block_hash, FIELD_MODULUS_BE)) =>
             /\ res.ok
             /\ res.val.tag = "Hash"
             /\ IsBigEndianOf(TheId.block_hash, res.val.felt)
        /\ (TheId.tag = "Hash" /\ ~LtBE(TheId.block_hash, FIELD_MODULUS_BE)) => ~res.ok
        /\ TheId.tag = "Number" => res.ok

C2_Witness ==
  /\ Translated
  /\ TheId = [tag |-> "Hash", block_hash |-> H_PP1]
  /\ ~TheResult.ok

\* C3: a returned header has neither hash nor number for a pending block, and
\* for a confirmed block both, the big-endian encoding of block_hash and the
\* widened block_number; never one without the other.
C3_HashAndNumberTogether ==
  \A r \in Requests : Returned(r) =>
    LET h == HeaderOfRet(r)
    IN  /\ IsPendingBlock(r) => h.hash = None /\ h.number = None
        /\ ~IsPendingBlock(r) =>
             /\ IsSome(h.hash) /\ IsBigEndianOf(Unwrap(h.hash), Source(r).block_hash)
             /\ IsSome(h.number) /\ IsWidened(Unwrap(h.number), Source(r).block_number)
        /\ IsSome(h.hash) <=> IsSome(h.number)

C3_Witness ==
  \E r, q \in Requests :
    /\ Returned(r) /\ kind[r] = "BlockWithTxs" /\ ~IsPendingBlock(r)
    /\ Source(r).block_number = 5 /\ IsSome(HeaderOfRet(r).hash)
    /\ Returned(q) /\ kind[q] = "BlockWithTxHashes" /\ IsPendingBlock(q)

\* C4: a hash-only block returns Hashes of the big-endian encodings of its
\* transaction hashes: as many, in the same order.
C4_HashesInSourceOrder ==
  \A r \in Requests : (Returned(r) /\ kind[r] = "BlockWithTxHashes") =>
    LET out == Inner(r).transactions
        src == Source(r).transactions
    IN  /\ out.tag = "Hashes"
        /\ Len(out.hashes) = Len(src)
        /\ \A i \in 1..Len(src) : IsBigEndianOf(out.hashes[i], src[i])

C4_Witness ==
  \E r \in Requests :
    /\ Returned(r) /\ kind[r] = "BlockWithTxHashes"
    /\ Source(r).transactions = <<F_HIGH, F_ONE>>
    /\ Len(Inner(r).transactions.hashes) = 2

\* C5: the miner is the 20 low-order bytes of the big-endian encoding of
\* sequencer_address, most significant first, whatever the 12 bytes above them;
\* two blocks of the same sequencer_address have the same miner.
C5_MinerIsLow20Bytes ==
  /\ \A r \in Requests : Returned(r) =>
       LET m == HeaderOfRet(r).miner
       IN  /\ Len(m) = ADDRESS_LEN
           /\ \A j \in 1..ADDRESS_LEN : m[j] = Source(r).sequencer_address[ADDRESS_LEN + 1 - j]
  /\ \A r, q \in Requests :
       (Returned(r) /\ Returned(q)
          /\ Source(r).sequencer_address = Source(q).sequencer_address) =>
         HeaderOfRet(r).miner = HeaderOfRet(q).miner

C5_Witness ==
  \E r, q \in Requests :
    /\ r # q /\ Returned(r) /\ Returned(q)
    /\ kind[r] # kind[q]
    /\ Source(r).sequencer_address = F_HIGH
    /\ Source(q).sequencer_address = F_HIGH
    /\ \E i \in (ADDRESS_LEN + 1)..H256_LEN : F_HIGH[i] # 0

\* The two blocks have the same fields outside transactions.
SameView(a, b) ==
  /\ a.tag = b.tag
  /\ a.parent_hash = b.parent_hash
  /\ a.sequencer_address = b.sequencer_address
  /\ a.timestamp = b.timestamp
  /\ a.tag = "Block" => a.block_hash = b.block_hash /\ a.block_number = b.block_number

PlaceholdersFromConfig(r) ==
  /\ HeaderOfRet(r).gas_limit = cfg.GAS_LIMIT
  /\ HeaderOfRet(r).gas_used = cfg.GAS_USED
  /\ HeaderOfRet(r).difficulty = cfg.DIFFICULTY
  /\ HeaderOfRet(r).nonce = cfg.NONCE
  /\ HeaderOfRet(r).mix_hash = cfg.MIX_HASH
  /\ Inner(r).size = cfg.SIZE
  /\ Inner(r).total_difficulty = cfg.TOTAL_DIFFICULTY

\* C6: on the same block fields, configuration and base fee the two
\* implementations return blocks equal outside transactions, and in both the
\* placeholders are the configuration's values.
C6_VariantsAgreeOutsideTransactions ==
  /\ \A r \in Requests : Returned(r) => PlaceholdersFromConfig(r)
  /\ \A r, q \in Requests :
       (Returned(r) /\ Returned(q) /\ kind[r] = "BlockWithTxHashes" /\ kind[q] = "BlockWithTxs"
          /\ SameView(Source(r), Source(q))) =>
         /\ HeaderOfRet(r) = HeaderOfRet(q)
         /\ Inner(r).total_difficulty = Inner(q).total_difficulty
         /\ Inner(r).uncles = Inner(q).uncles
         /\ Inner(r).size = Inner(q).size
         /\ Inner(r).withdrawals = Inner(q).withdrawals

\* The calls of a request that were awaited.
AwaitedCalls(r) == {i \in 1..Len(calls[r]) : calls[r][i].awaited}
FilterCalls(r) == {i \in 1..Len(calls[r]) : calls[r][i].fn = "filter_starknet_into_eth_txs"}

\* C7 as stated: every returned call, of either variant, suspended exactly once.
C7_EveryCallSuspendsOnce ==
  \A r \in Requests : Returned(r) => Cardinality(AwaitedCalls(r)) = 1

\* C7 as amended: BlockWithTxs::to_eth_block suspends exactly once, at its call of
\* filter_starknet_into_eth_txs; BlockWithTxHashes::to_eth_block suspends nowhere.
C7_OnlyTxsSuspends ==
  \A r \in Requests : Returned(r) =>
    /\ kind[r] = "BlockWithTxs" =>
         /\ Cardinality(AwaitedCalls(r)) = 1
         /\ AwaitedCalls(r) = FilterCalls(r)
    /\ kind[r] = "BlockWithTxHashes" => AwaitedCalls(r) = {}

C7_Witness ==
  \E r, q \in Requests :
    /\ Returned(r) /\ kind[r] = "BlockWithTxs" /\ Cardinality(AwaitedCalls(r)) = 1
    /\ Returned(q) /\ kind[q] = "BlockWithTxHashes" /\ Len(calls[q]) = 1

\* C8: every returned block has the configured total_difficulty, no uncles, an
\* empty list of withdrawals, zero state, transactions, receipts and withdrawals
\* roots, a zero bloom, and the encoding of parent_hash as uncles_hash.
C8_FixedFields ==
  \A r \in Requests : Returned(r) =>
    LET b == Inner(r)
        h == HeaderOfRet(r)
    IN  /\ b.total_difficulty = cfg.TOTAL_DIFFICULTY
        /\ b.uncles = <<>>
        /\ b.withdrawals = Some(<<>>)
        /\ \A i \in 1..H256_LEN :
             /\ h.state_root[i] = 0
             /\ h.transactions_root[i] = 0
             /\ h.receipts_root[i] = 0
             /\ Unwrap(h.withdrawals_root)[i] = 0
        /\ Len(h.state_root) = H256_LEN /\ Len(h.transactions_root) = H256_LEN
        /\ Len(h.receipts_root) = H256_LEN /\ Len(Unwrap(h.withdrawals_root)) = H256_LEN
        /\ Len(h.logs_bloom) = BLOOM_LEN
        /\ \A i \in 1..BLOOM_LEN : h.logs_bloom[i] = 0
        /\ IsBigEndianOf(h.uncles_hash, Source(r).parent_hash)

C8_Witness ==
  \E r, q \in Requests :
    /\ Returned(r) /\ kind[r] = "BlockWithTxs" /\ IsPendingBlock(r)
    /\ Source(r).parent_hash = F_COUNT
    /\ Returned(q) /\ kind[q] = "BlockWithTxHashes" /\ ~IsPendingBlock(q)
    /\ Source(q).parent_hash = F_PM1
    /\ cfg.TOTAL_DIFFICULTY = Some(U256_from(9))
    /\ cfg.DIFFICULTY # U256_from(9)

HeaderFields ==
  {"hash", "parent_hash", "uncles_hash", "miner", "state_root", "transactions_root",
   "receipts_root", "number", "gas_used", "gas_limit", "extra_data", "logs_bloom",
   "timestamp", "difficulty", "nonce", "base_fee_per_gas", "mix_hash", "withdrawals_root"}
BlockFields == {"header", "total_difficulty", "uncles", "transactions", "size", "withdrawals"}

\* A block with every field of the header and of the block set.
Complete(rich) ==
  /\ DOMAIN rich.inner = BlockFields
  /\ DOMAIN rich.inner.header = HeaderFields
  /\ Len(rich.inner.header.parent_hash) = H256_LEN
  /\ Len(rich.inner.header.miner) = ADDRESS_LEN
  /\ rich.inner.transactions.tag \in {"Hashes", "Full"}

Dropped(r) == pc[r] \in {"dropped_unpolled", "dropped_suspended"}

\* C9: a request returns nothing until it returns a block with every field set;
\* an abandoned request stays abandoned and never returns one; a returned block
\* never changes; and a step of one request changes nothing of another.
C9_AllOrNothing ==
  /\ [](\A r \in Requests :
          /\ ~Returned(r) => ret[r] = None
          /\ Returned(r) => IsSome(ret[r]) /\ Complete(Unwrap(ret[r])))
  /\ [][\A r \in Requests :
          /\ Dropped(r) => pc'[r] = pc[r] /\ ret'[r] = None
          /\ Returned(r) => pc'[r] = pc[r] /\ ret'[r] = ret[r]
          /\ pc'[r] # pc[r] =>
               \A q \in Requests \ {r} :
                 /\ pc'[q] = pc[q] /\ ret'[q] = ret[q] /\ self'[q] = self[q]
                 /\ locals'[q] = locals[q] /\ calls'[q] = calls[q]]_vars

C9_Witness ==
  \E r, q \in Requests :
    /\ pc[r] = "dropped_suspended" /\ kind[r] = "BlockWithTxs" /\ ret[r] = None
    /\ Returned(q) /\ kind[q] = "BlockWithTxs" /\ Complete(Unwrap(ret[q]))

\* C10: a returned BlockWithTxs called filter_starknet_into_eth_txs once, with
\* its transactions in their order and the hash and number of the returned
\* header (both absent when pending, both present when confirmed), and returns
\* as transactions what that call returned.
C10_FilterCalledOnce ==
  \A r \in Requests : (Returned(r) /\ kind[r] = "BlockWithTxs") =>
    /\ Cardinality(FilterCalls(r)) = 1
    /\ \A i \in FilterCalls(r) :
         LET c == calls[r][i]
         IN  /\ c.args[1] = Source(r).transactions
             /\ c.args[2] = HeaderOfRet(r).hash
             /\ c.args[3] = HeaderOfRet(r).number
             /\ IsPendingBlock(r) => c.args[2] = None /\ c.args[3] = None
             /\ ~IsPendingBlock(r) => IsSome(c.args[2]) /\ IsSome(c.args[3])
             /\ IsSome(c.returned)
             /\ Inner(r).transactions = Unwrap(c.returned)

C10_Witness ==
  \E r \in Requests :
    /\ Returned(r) /\ kind[r] = "BlockWithTxs" /\ ~IsPendingBlock(r)
    /\ Len(Source(r).transactions) = 2
    /\ Source(r).transactions[1].type = "DECLARE"
    /\ Source(r).transactions[2].type = "INVOKE"
    /\ Len(Inner(r).transactions.txs) = 1
====
